---------------------------- MODULE Spec2Model ----------------------------
(***************************************************************************)
(* The BankAccount aggregate of src/main.rs: commands are decided by       *)
(* handle against the current state, events are folded into the state by   *)
(* apply.  Balances and amounts are f64 values; the model keeps the IEEE   *)
(* special values (NaN, the infinities, the negative zero) and a scaled    *)
(* down finite range that overflows to an infinity.                        *)
(***************************************************************************)
EXTENDS Integers, Sequences, FiniteSets, TLC

VARIABLES
    state,   \* the BankAccount under test: [opened, balance]
    call,    \* the most recent call made on the aggregate, its input and output
    log,     \* the events recorded (and folded into state) so far, oldest first
    replay,  \* a second BankAccount being rebuilt from log: [pos, state]
    earlier  \* a handle call made before the most recent one, kept for comparison

vars == <<state, call, log, replay, earlier>>

-----------------------------------------------------------------------------
(* Bounds *)

\* Largest finite magnitude of the scaled-down f64; a larger sum is an infinity.
FMax == 2

\* Longest recorded event history.
MaxLog == 2

-----------------------------------------------------------------------------
(* f64 *)

Fin(n) == [k |-> "fin", v |-> n]

NegZero == [k |-> "nzero", v |-> 0]

PInf == [k |-> "inf", v |-> 1]

NInf == [k |-> "inf", v |-> -1]

NaN == [k |-> "nan", v |-> 0]

F64 == {Fin(n) : n \in -FMax..FMax} \cup {NegZero, PInf, NInf, NaN}

\* Rounding of an exact result into the scaled-down finite range.
Round(n) == IF n > FMax THEN PInf ELSE IF n < -FMax THEN NInf ELSE Fin(n)

\* -a
FNeg(a) ==
    CASE a.k = "nan" -> NaN
      [] a.k = "inf" -> [k |-> "inf", v |-> -a.v]
      [] a.k = "nzero" -> Fin(0)
      [] OTHER -> IF a.v = 0 THEN NegZero ELSE Fin(-a.v)

\* a + b
FAdd(a, b) ==
    IF a.k = "nan" \/ b.k = "nan" THEN NaN
    ELSE IF a.k = "inf" /\ b.k = "inf" THEN (IF a.v = b.v THEN a ELSE NaN)
    ELSE IF a.k = "inf" THEN a
    ELSE IF b.k = "inf" THEN b
    ELSE IF a.k = "nzero" /\ b.k = "nzero" THEN NegZero
    ELSE Round(a.v + b.v)

\* a - b
FSub(a, b) == FAdd(a, FNeg(b))

\* a < b
FLt(a, b) ==
    IF a.k = "nan" \/ b.k = "nan" THEN FALSE
    ELSE IF a.k = "inf" THEN a.v = -1 /\ ~(b.k = "inf" /\ b.v = -1)
    ELSE IF b.k = "inf" THEN b.v = 1
    ELSE a.v < b.v

\* 0_f64
Zero == Fin(0)

-----------------------------------------------------------------------------
(* Commands, events, errors *)

AccountIds == {"acct-1", "acct-2"}

CheckNumbers == {"chk-1"}

OpenAccount(id) == [type |-> "OpenAccount", account_id |-> id]

DepositMoney(a) == [type |-> "DepositMoney", amount |-> a]

WithdrawMoney(a) == [type |-> "WithdrawMoney", amount |-> a]

WriteCheck(n, a) == [type |-> "WriteCheck", check_number |-> n, amount |-> a]

BankAccountCommand ==
    {OpenAccount(id) : id \in AccountIds}
        \cup {DepositMoney(a) : a \in F64}
        \cup {WithdrawMoney(a) : a \in F64}
        \cup {WriteCheck(n, a) : n \in CheckNumbers, a \in F64}

AccountOpened(id) == [type |-> "AccountOpened", account_id |-> id]

CustomerDepositedMoney(a, b) ==
    [type |-> "CustomerDepositedMoney", amount |-> a, balance |-> b]

CustomerWithdrewCash(a, b) ==
    [type |-> "CustomerWithdrewCash", amount |-> a, balance |-> b]

CustomerWroteCheck(n, a, b) ==
    [type |-> "CustomerWroteCheck", check_number |-> n, amount |-> a, balance |-> b]

\* The events whose amount is drawn from A and whose balance is drawn from B.
EventsOver(A, B) ==
    {AccountOpened(id) : id \in AccountIds}
        \cup {CustomerDepositedMoney(a, b) : a \in A, b \in B}
        \cup {CustomerWithdrewCash(a, b) : a \in A, b \in B}
        \cup {CustomerWroteCheck(n, a, b) : n \in CheckNumbers, a \in A, b \in B}

BankAccountEvent == EventsOver(F64, F64)

\* event_type, with the name of one variant pasted into another.
event_type_Pasted(self) ==
    CASE self.type = "AccountOpened" -> "AccountOpened"
      [] self.type = "CustomerDepositedMoney" -> "CustomerDepositedMoney"
      [] self.type = "CustomerWithdrewCash" -> "CustomerWithdrewCash"
      [] self.type = "CustomerWroteCheck" -> "CustomerWithdrewCash"

event_type(self) ==
    CASE self.type = "AccountOpened" -> "AccountOpened"
      [] self.type = "CustomerDepositedMoney" -> "CustomerDepositedMoney"
      [] self.type = "CustomerWithdrewCash" -> "CustomerWithdrewCash"
      [] self.type = "CustomerWroteCheck" -> "CustomerWroteCheck"

event_version(self) == "1.0"

BankAccountError(msg) == [tag |-> "Err", error |-> msg]

Ok(events) == [tag |-> "Ok", events |-> events]

-----------------------------------------------------------------------------
(* The aggregate *)

\* BankAccount::default()
Default == [opened |-> FALSE, balance |-> Zero]

BankAccount == [opened : BOOLEAN, balance : F64]

\* handle, rejecting a deposit that is not above zero.
handle_RejectsNonPositiveDeposit(self, command) ==
    CASE command.type = "DepositMoney" ->
            LET balance == FAdd(self.balance, command.amount)
            IN  IF FLt(Zero, command.amount)
                THEN Ok(<<CustomerDepositedMoney(command.amount, balance)>>)
                ELSE BankAccountError("invalid amount")
      [] command.type = "WithdrawMoney" ->
            LET balance == FSub(self.balance, command.amount)
            IN  IF FLt(balance, Zero)
                THEN BankAccountError("funds not available")
                ELSE Ok(<<CustomerWithdrewCash(command.amount, balance)>>)
      [] OTHER -> Ok(<<>>)

\* handle, refusing a withdrawal that empties the account (<= for <).
handle_RejectsEmptying(self, command) ==
    CASE command.type = "DepositMoney" ->
            LET balance == FAdd(self.balance, command.amount)
            IN  Ok(<<CustomerDepositedMoney(command.amount, balance)>>)
      [] command.type = "WithdrawMoney" ->
            LET balance == FSub(self.balance, command.amount)
            IN  IF FLt(balance, Zero) \/ balance = Zero
                THEN BankAccountError("funds not available")
                ELSE Ok(<<CustomerWithdrewCash(command.amount, balance)>>)
      [] OTHER -> Ok(<<>>)

\* handle, without the funds check.
handle_NoFundsCheck(self, command) ==
    CASE command.type = "DepositMoney" ->
            LET balance == FAdd(self.balance, command.amount)
            IN  Ok(<<CustomerDepositedMoney(command.amount, balance)>>)
      [] command.type = "WithdrawMoney" ->
            LET balance == FSub(self.balance, command.amount)
            IN  Ok(<<CustomerWithdrewCash(command.amount, balance)>>)
      [] OTHER -> Ok(<<>>)

\* handle, with WriteCheck debiting the account the way WithdrawMoney does.
handle_ChecksDebit(self, command) ==
    CASE command.type = "DepositMoney" ->
            LET balance == FAdd(self.balance, command.amount)
            IN  Ok(<<CustomerDepositedMoney(command.amount, balance)>>)
      [] command.type = "WithdrawMoney" ->
            LET balance == FSub(self.balance, command.amount)
            IN  IF FLt(balance, Zero)
                THEN BankAccountError("funds not available")
                ELSE Ok(<<CustomerWithdrewCash(command.amount, balance)>>)
      [] command.type = "WriteCheck" ->
            LET balance == FSub(self.balance, command.amount)
            IN  IF FLt(balance, Zero)
                THEN BankAccountError("funds not available")
                ELSE Ok(<<CustomerWroteCheck(command.check_number, command.amount, balance)>>)
      [] OTHER -> Ok(<<>>)

\* handle, refusing a withdrawal that comes right after another withdrawal
\* was handled: the result depends on more than (self, command).
handle_Throttles(self, command) ==
    CASE command.type = "DepositMoney" ->
            LET balance == FAdd(self.balance, command.amount)
            IN  Ok(<<CustomerDepositedMoney(command.amount, balance)>>)
      [] command.type = "WithdrawMoney" ->
            LET balance == FSub(self.balance, command.amount)
            IN  IF \/ FLt(balance, Zero)
                   \/ (call.op = "handle" /\ call.command.type = "WithdrawMoney")
                THEN BankAccountError("funds not available")
                ELSE Ok(<<CustomerWithdrewCash(command.amount, balance)>>)
      [] OTHER -> Ok(<<>>)

\* handle, refusing every command but OpenAccount until the account is opened.
handle_RequiresOpened(self, command) ==
    CASE command.type = "DepositMoney" ->
            LET balance == FAdd(self.balance, command.amount)
            IN  IF ~self.opened THEN BankAccountError("account not opened")
                ELSE Ok(<<CustomerDepositedMoney(command.amount, balance)>>)
      [] command.type = "WithdrawMoney" ->
            LET balance == FSub(self.balance, command.amount)
            IN  IF ~self.opened THEN BankAccountError("account not opened")
                ELSE IF FLt(balance, Zero)
                THEN BankAccountError("funds not available")
                ELSE Ok(<<CustomerWithdrewCash(command.amount, balance)>>)
      [] OTHER -> Ok(<<>>)

\* handle, with an OpenAccount arm that opens an account not yet opened.
handle_OpensAccount(self, command) ==
    CASE command.type = "OpenAccount" ->
            IF self.opened THEN BankAccountError("account already opened")
            ELSE Ok(<<AccountOpened(command.account_id)>>)
      [] command.type = "DepositMoney" ->
            LET balance == FAdd(self.balance, command.amount)
            IN  Ok(<<CustomerDepositedMoney(command.amount, balance)>>)
      [] command.type = "WithdrawMoney" ->
            LET balance == FSub(self.balance, command.amount)
            IN  IF FLt(balance, Zero)
                THEN BankAccountError("funds not available")
                ELSE Ok(<<CustomerWithdrewCash(command.amount, balance)>>)
      [] OTHER -> Ok(<<>>)

\* handle, with the withdrawal added to the balance (+ for -).
handle_WithdrawAdds(self, command) ==
    CASE command.type = "DepositMoney" ->
            LET balance == FAdd(self.balance, command.amount)
            IN  Ok(<<CustomerDepositedMoney(command.amount, balance)>>)
      [] command.type = "WithdrawMoney" ->
            LET balance == FAdd(self.balance, command.amount)
            IN  IF FLt(balance, Zero)
                THEN BankAccountError("funds not available")
                ELSE Ok(<<CustomerWithdrewCash(command.amount, balance)>>)
      [] OTHER -> Ok(<<>>)

handle(self, command) ==
    CASE command.type = "DepositMoney" ->
            LET balance == FAdd(self.balance, command.amount)
            IN  Ok(<<CustomerDepositedMoney(command.amount, balance)>>)
      [] command.type = "WithdrawMoney" ->
            LET balance == FSub(self.balance, command.amount)
            IN  IF FLt(balance, Zero)
                THEN BankAccountError("funds not available")
                ELSE Ok(<<CustomerWithdrewCash(command.amount, balance)>>)
      [] OTHER -> Ok(<<>>)

\* apply, recomputing the balance of a deposit from the amount.
apply_Recomputes(self, event) ==
    CASE event.type = "AccountOpened" -> [self EXCEPT !.opened = TRUE]
      [] event.type = "CustomerDepositedMoney" ->
            [self EXCEPT !.balance = FAdd(self.balance, event.amount)]
      [] event.type = "CustomerWithdrewCash" -> [self EXCEPT !.balance = event.balance]
      [] event.type = "CustomerWroteCheck" -> [self EXCEPT !.balance = event.balance]

\* apply, leaving the balance alone when the event's balance is below zero.
apply_SkipsNegative(self, event) ==
    CASE event.type = "AccountOpened" -> [self EXCEPT !.opened = TRUE]
      [] event.type = "CustomerDepositedMoney" -> [self EXCEPT !.balance = event.balance]
      [] event.type = "CustomerWithdrewCash" ->
            IF FLt(event.balance, Zero) THEN self
            ELSE [self EXCEPT !.balance = event.balance]
      [] event.type = "CustomerWroteCheck" -> [self EXCEPT !.balance = event.balance]

\* apply, adding a deposit to the one live account instead of taking the
\* event's balance: the result depends on more than (self, event).
apply_AddsToLive(self, event) ==
    CASE event.type = "AccountOpened" -> [self EXCEPT !.opened = TRUE]
      [] event.type = "CustomerDepositedMoney" ->
            [self EXCEPT !.balance = FAdd(state.balance, event.amount)]
      [] event.type = "CustomerWithdrewCash" -> [self EXCEPT !.balance = event.balance]
      [] event.type = "CustomerWroteCheck" -> [self EXCEPT !.balance = event.balance]

\* apply, building a fresh account around the balance of a deposit.
apply_Rebuilds(self, event) ==
    CASE event.type = "AccountOpened" -> [self EXCEPT !.opened = TRUE]
      [] event.type = "CustomerDepositedMoney" ->
            [opened |-> FALSE, balance |-> event.balance]
      [] event.type = "CustomerWithdrewCash" -> [self EXCEPT !.balance = event.balance]
      [] event.type = "CustomerWroteCheck" -> [self EXCEPT !.balance = event.balance]

apply(self, event) ==
    CASE event.type = "AccountOpened" -> [self EXCEPT !.opened = TRUE]
      [] event.type = "CustomerDepositedMoney" -> [self EXCEPT !.balance = event.balance]
      [] event.type = "CustomerWithdrewCash" -> [self EXCEPT !.balance = event.balance]
      [] event.type = "CustomerWroteCheck" -> [self EXCEPT !.balance = event.balance]

RECURSIVE Fold(_, _)
\* The state after applying events, in order, to self.
Fold(self, events) ==
    IF events = <<>> THEN self
    ELSE Fold(apply(self, Head(events)), Tail(events))

-----------------------------------------------------------------------------
(* Calls on the aggregate *)

Init ==
    /\ state = Default
    /\ call = [op |-> "none"]
    /\ log = <<>>
    /\ replay = [pos |-> 0, state |-> Default]
    /\ earlier = [op |-> "none"]

\* Handle, debiting the account before the funds check.
Handle_DebitsFirst(command) ==
    /\ call' = [op |-> "handle", pre |-> state, command |-> command,
                result |-> handle(state, command)]
    /\ state' = IF command.type = "WithdrawMoney"
                THEN [state EXCEPT !.balance = FSub(state.balance, command.amount)]
                ELSE state
    /\ UNCHANGED <<log, replay, earlier>>

\* handle(&self, command, services): the aggregate is borrowed immutably.
Handle(command) ==
    /\ call' = [op |-> "handle", pre |-> state, command |-> command,
                result |-> handle(state, command)]
    /\ UNCHANGED <<state, log, replay, earlier>>

\* apply(&mut self, event)
Apply(event) ==
    /\ state' = apply(state, event)
    /\ call' = [op |-> "apply", pre |-> state, event |-> event]
    /\ UNCHANGED <<log, replay, earlier>>

Next ==
    \/ \E command \in BankAccountCommand : Handle(command)
    \/ \E event \in BankAccountEvent : Apply(event)

Spec == Init /\ [][Next]_vars

-----------------------------------------------------------------------------
(* Recording an event history and replaying it *)

\* The amounts of the recorded events (apply reads no amount).
LogAmounts == {Fin(1)}

LogEvents == EventsOver(LogAmounts, F64)

\* An event is appended to the history and folded into the live aggregate.
Record(event) ==
    /\ Len(log) < MaxLog
    /\ log' = Append(log, event)
    /\ state' = apply(state, event)
    /\ call' = [op |-> "apply", pre |-> state, event |-> event]
    /\ UNCHANGED <<replay, earlier>>

\* The replayed aggregate folds the next event of the history.
ReplayStep ==
    /\ replay.pos < Len(log)
    /\ replay' = [pos |-> replay.pos + 1,
                  state |-> apply(replay.state, log[replay.pos + 1])]
    /\ UNCHANGED <<state, call, log, earlier>>

\* The replay starts over from the default state.
ReplayRestart ==
    /\ replay.pos > 0
    /\ replay' = [pos |-> 0, state |-> Default]
    /\ UNCHANGED <<state, call, log, earlier>>

FoldNext ==
    \/ \E event \in LogEvents : Record(event)
    \/ ReplayStep
    \/ ReplayRestart

FoldSpec == Init /\ [][FoldNext]_vars

-----------------------------------------------------------------------------
(* Properties of handle and apply, checked under Spec *)

IsHandle == call.op = "handle"

IsApply == call.op = "apply"

\* The events a result carries: those of an Ok, none for an Err.
Emitted(result) == IF result.tag = "Ok" THEN result.events ELSE <<>>

BalanceEvents == {"CustomerDepositedMoney", "CustomerWithdrewCash", "CustomerWroteCheck"}

\* C1: in every state and for every amount, handle(DepositMoney{amount})
\* succeeds with exactly one event, a CustomerDepositedMoney that carries the
\* amount and balance = state.balance + amount.
C1_DepositEmitsOneEvent ==
    (IsHandle /\ call.command.type = "DepositMoney") =>
        /\ call.result.tag = "Ok"
        /\ Len(call.result.events) = 1
        /\ call.result.events[1].type = "CustomerDepositedMoney"
        /\ call.result.events[1].amount = call.command.amount
        /\ call.result.events[1].balance = FAdd(call.pre.balance, call.command.amount)

\* A negative deposit on an opened account with a balance was handled.
C1_Witness ==
    /\ IsHandle
    /\ call.command = DepositMoney(Fin(-1))
    /\ call.pre = [opened |-> TRUE, balance |-> Fin(1)]
    /\ call.result = Ok(<<CustomerDepositedMoney(Fin(-1), Fin(0))>>)

\* C2: handle(WithdrawMoney{amount}) computes state.balance - amount; below
\* zero it returns the error "funds not available" and no event, otherwise
\* (zero included) exactly one CustomerWithdrewCash with the amount and the
\* new balance.
C2_WithdrawChecksFunds ==
    (IsHandle /\ call.command.type = "WithdrawMoney") =>
        LET new_balance == FSub(call.pre.balance, call.command.amount)
        IN  IF FLt(new_balance, Zero)
            THEN /\ call.result.tag = "Err"
                 /\ call.result.error = "funds not available"
                 /\ Emitted(call.result) = <<>>
            ELSE /\ call.result.tag = "Ok"
                 /\ Len(call.result.events) = 1
                 /\ call.result.events[1].type = "CustomerWithdrewCash"
                 /\ call.result.events[1].amount = call.command.amount
                 /\ call.result.events[1].balance = new_balance

\* A withdrawal of the whole balance was handled and left exactly zero.
C2_Witness ==
    /\ IsHandle
    /\ call.command = WithdrawMoney(Fin(1))
    /\ call.pre.balance = Fin(1)
    /\ call.result = Ok(<<CustomerWithdrewCash(Fin(1), Zero)>>)

\* C3: whatever events were folded before and whatever the command, handle
\* returns no CustomerWithdrewCash whose balance is below zero.
C3_NoNegativeWithdrawal ==
    IsHandle =>
        \A i \in 1..Len(Emitted(call.result)) :
            Emitted(call.result)[i].type = "CustomerWithdrewCash" =>
                ~FLt(Emitted(call.result)[i].balance, Zero)

\* A withdrawal was granted on an account whose folded balance was negative.
C3_Witness ==
    /\ IsHandle
    /\ call.command.type = "WithdrawMoney"
    /\ FLt(call.pre.balance, Zero)
    /\ call.result.tag = "Ok"

\* C4: when handle returns an error, the state after the call is the state
\* before it and no event is emitted.
C4_ErrorChangesNothing ==
    (IsHandle /\ call.result.tag = "Err") =>
        /\ state = call.pre
        /\ Emitted(call.result) = <<>>

\* A withdrawal was rejected on the default state, which is still the state.
C4_Witness ==
    /\ IsHandle
    /\ call.command = WithdrawMoney(Fin(2))
    /\ call.result = BankAccountError("funds not available")
    /\ call.pre = Default
    /\ state = [opened |-> FALSE, balance |-> Fin(0)]

\* C7: with opened = false, handle(OpenAccount{account_id}) produces
\* AccountOpened{account_id} with the same account_id.
C7_OpenAccountEmitsAccountOpened ==
    (IsHandle /\ call.command.type = "OpenAccount" /\ ~call.pre.opened) =>
        call.result = Ok(<<AccountOpened(call.command.account_id)>>)

\* C8: with opened = true, handle(OpenAccount{..}) returns an error and
\* emits no event.
C8_ReopenRejected ==
    (IsHandle /\ call.command.type = "OpenAccount" /\ call.pre.opened) =>
        call.result.tag = "Err"

\* C9: handle(WriteCheck{check_number, amount}) succeeds with the empty
\* event sequence in every state, so folding its result leaves the balance
\* as it was.
C9_WriteCheckEmitsNothing ==
    (IsHandle /\ call.command.type = "WriteCheck") =>
        /\ call.result = Ok(<<>>)
        /\ Fold(call.pre, Emitted(call.result)).balance = call.pre.balance

\* A check larger than the balance was written.
C9_Witness ==
    /\ IsHandle
    /\ call.command = WriteCheck("chk-1", Fin(2))
    /\ call.pre.balance = Fin(1)
    /\ call.result.tag = "Ok"

\* C10: apply is defined for every event in every state; AccountOpened sets
\* opened, and a deposit, withdrawal or check event sets the balance to the
\* event's balance, whatever its amount and whatever the balance was.
C10_ApplyOverwrites ==
    IsApply =>
        /\ state \in BankAccount
        /\ call.event.type = "AccountOpened" => state.opened
        /\ call.event.type \in BalanceEvents => state.balance = call.event.balance

\* A deposit event whose balance is not the old balance plus its amount was
\* folded.
C10_Witness ==
    /\ IsApply
    /\ call.event = CustomerDepositedMoney(Fin(1), Fin(-2))
    /\ call.pre.balance = Fin(2)
    /\ state.balance = Fin(-2)

-----------------------------------------------------------------------------
(* Properties of replay, checked under FoldSpec *)

C6_BalanceIsLastEvents ==
    LET deposit_withdraw ==
            \A i \in 1..Len(log) :
                log[i].type \in {"CustomerDepositedMoney", "CustomerWithdrewCash"}
    IN  (log # <<>> /\ deposit_withdraw) =>
            state.balance = log[Len(log)].balance

\* A deposit to -2 and then a withdrawal to -1 were folded: balances no
\* handle would have produced.
C6_Witness ==
    /\ log = <<CustomerDepositedMoney(Fin(1), Fin(-2)),
               CustomerWithdrewCash(Fin(1), Fin(-1))>>
    /\ state.balance = Fin(-1)

-----------------------------------------------------------------------------
(* Comparing two handle calls *)

\* One account id and one check are enough here: handle reads neither.
PureCommands ==
    {OpenAccount("acct-1"), WriteCheck("chk-1", Fin(1))}
        \cup {DepositMoney(a) : a \in F64}
        \cup {WithdrawMoney(a) : a \in F64}

\* Events that can put the aggregate in every state.
PureEvents ==
    {AccountOpened("acct-1")} \cup {CustomerDepositedMoney(Fin(1), b) : b \in F64}

\* The most recent handle call is kept, to be compared with a later one.
Remember ==
    /\ IsHandle
    /\ earlier' = call
    /\ UNCHANGED <<state, call, log, replay>>

PureNext ==
    \/ \E command \in PureCommands : Handle(command)
    \/ \E event \in PureEvents : Apply(event)
    \/ Remember

PureSpec == Init /\ [][PureNext]_vars

-----------------------------------------------------------------------------
(* The loop: handle a command, record the returned events, fold them *)

\* The events of the most recent handle call are appended to the history and
\* folded into the aggregate, in order.
Commit ==
    /\ IsHandle
    /\ Emitted(call.result) # <<>>
    /\ Len(log) + Len(Emitted(call.result)) <= MaxLog
    /\ LET events == Emitted(call.result)
           front == SubSeq(events, 1, Len(events) - 1)
       IN  /\ log' = log \o events
           /\ state' = Fold(state, events)
           /\ call' = [op |-> "apply", pre |-> Fold(state, front),
                       event |-> events[Len(events)]]
    /\ UNCHANGED <<replay, earlier>>

LoopNext ==
    \/ \E command \in BankAccountCommand : Handle(command)
    \/ Commit

LoopSpec == Init /\ [][LoopNext]_vars

\* C12: in the loop started from the default state, after every step the
\* live state is the state obtained by replaying the whole history from the
\* default state.
C12_LiveStateIsReplay ==
    state = Fold(Default, log)

\* A deposit and then a withdrawal were handled, recorded and folded.
C12_Witness ==
    /\ log = <<CustomerDepositedMoney(Fin(2), Fin(2)),
               CustomerWithdrewCash(Fin(1), Fin(1))>>
    /\ state = [opened |-> FALSE, balance |-> Fin(1)]

-----------------------------------------------------------------------------
(* Properties of the event names, checked under FoldSpec *)

\* C13: event_type gives the four event variants four different names,
\* whatever the payload, and event_version is "1.0" for every event.
C13_EventNamesDistinct ==
    \A i, j \in 1..Len(log) :
        /\ (event_type(log[i]) = event_type(log[j])) <=> (log[i].type = log[j].type)
        /\ event_version(log[i]) = "1.0"

\* A withdrawal and a check with the same amount and balance were recorded.
C13_Witness ==
    /\ Len(log) = 2
    /\ log[1] = CustomerWithdrewCash(Fin(1), Fin(2))
    /\ log[2] = CustomerWroteCheck("chk-1", Fin(1), Fin(2))
    /\ event_type(log[1]) # event_type(log[2])

-----------------------------------------------------------------------------
(* Further properties of handle and apply, checked under Spec *)

\* C14: every apply step changes only the field its event is about:
\* AccountOpened leaves the balance, a deposit, withdrawal or check event
\* leaves opened; so once opened is true no step makes it false again.
C14_ApplyChangesOneField ==
    [][ /\ state.opened => state'.opened
        /\ (call'.op = "apply" /\ call'.pre = state) =>
              /\ call'.event.type = "AccountOpened" =>
                    state'.balance = state.balance
              /\ call'.event.type \in BalanceEvents =>
                    state'.opened = state.opened ]_vars

\* A deposit event was folded into an opened account, which is still opened.
C14_Witness ==
    /\ IsApply
    /\ call.event = CustomerDepositedMoney(Fin(1), Fin(2))
    /\ call.pre = [opened |-> TRUE, balance |-> Fin(-1)]
    /\ state = [opened |-> TRUE, balance |-> Fin(2)]

\* C15: handle returns an error exactly when the command is
\* WithdrawMoney{amount} and state.balance - amount < 0, and the error is
\* always "funds not available"; every other command succeeds in every
\* state, opened or not, and a successful result holds at most one event.
C15_OnlyWithdrawalFails ==
    IsHandle =>
        LET overdraws ==
                /\ call.command.type = "WithdrawMoney"
                /\ FLt(FSub(call.pre.balance, call.command.amount), Zero)
        IN  /\ (call.result.tag = "Err") <=> overdraws
            /\ call.result.tag = "Err" => call.result = BankAccountError("funds not available")
            /\ call.result.tag = "Ok" => Len(call.result.events) <= 1

\* A deposit was accepted on an account that was never opened.
C15_Witness ==
    /\ IsHandle
    /\ ~call.pre.opened
    /\ call.command = DepositMoney(Fin(2))
    /\ call.result.tag = "Ok"
    /\ Len(call.result.events) = 1

-----------------------------------------------------------------------------
(* Properties of the loop, checked under LoopSpec *)

DepositWithdraw == {"CustomerDepositedMoney", "CustomerWithdrewCash"}

\* C16: in the loop started from the default state, whatever the commands,
\* handle emits no AccountOpened and no CustomerWroteCheck, so opened is
\* false in every reachable state.
C16_NeverOpened ==
    /\ ~state.opened
    /\ \A i \in 1..Len(log) : log[i].type \in DepositWithdraw
    /\ IsHandle =>
          \A i \in 1..Len(Emitted(call.result)) :
              Emitted(call.result)[i].type \in DepositWithdraw

\* OpenAccount was handled after two events were recorded, and the account
\* is still not opened.
C16_Witness ==
    /\ IsHandle
    /\ call.command.type = "OpenAccount"
    /\ call.result = Ok(<<>>)
    /\ Len(log) = 2
    /\ ~state.opened

\* Neither NaN nor an infinity.
IsFinite(a) == a.k \in {"fin", "nzero"}

\* The number a finite f64 stands for.
Num(a) == a.v

RECURSIVE NetAmount(_)
\* The exact sum of the deposited amounts minus the exact sum of the
\* withdrawn amounts of a history whose amounts are finite.
NetAmount(events) ==
    IF events = <<>> THEN 0
    ELSE LET e == events[Len(events)]
             rest == NetAmount(SubSeq(events, 1, Len(events) - 1))
         IN  CASE e.type = "CustomerDepositedMoney" -> rest + Num(e.amount)
               [] e.type = "CustomerWithdrewCash" -> rest - Num(e.amount)
               [] OTHER -> rest

FiniteAmounts == \A i \in 1..Len(log) : IsFinite(log[i].amount)

\* Every balance handle computed is the exact sum or difference: in the
\* scaled-down f64 the only inexact result is an overflow to an infinity.
ExactBalances == \A i \in 1..Len(log) : IsFinite(log[i].balance)

\* C17 as claimed: in the loop, after every step the balance is the sum of
\* the deposited amounts minus the sum of the withdrawn amounts (stated for
\* histories of finite amounts, where those sums are numbers).
C17_BalanceIsNetAmount ==
    FiniteAmounts =>
        /\ IsFinite(state.balance)
        /\ Num(state.balance) = NetAmount(log)

\* C17 as amended: the balance is that sum provided every amount is finite
\* and every addition and subtraction handle made was exact.
C17_BalanceIsNetAmountWhenExact ==
    (FiniteAmounts /\ ExactBalances) =>
        /\ IsFinite(state.balance)
        /\ Num(state.balance) = NetAmount(log)

\* A negative deposit and then a negative withdrawal were handled and folded.
C17_Witness ==
    /\ log = <<CustomerDepositedMoney(Fin(-1), Fin(-1)),
               CustomerWithdrewCash(Fin(-2), Fin(1))>>
    /\ state.balance = Fin(1)
    /\ NetAmount(log) = 1

\* a >= b, as f64 compares: false when either side is NaN.
FGe(a, b) == a.k # "nan" /\ b.k # "nan" /\ ~FLt(a, b)

\* The commands whose amount, if they are a deposit or a withdrawal, is >= 0.
NonNegativeCommands ==
    {c \in BankAccountCommand :
        c.type \in {"DepositMoney", "WithdrawMoney"} => FGe(c.amount, Zero)}

NonNegativeNext ==
    \/ \E command \in NonNegativeCommands : Handle(command)
    \/ Commit

\* The loop, fed only deposits and withdrawals of amounts >= 0.
NonNegativeSpec == Init /\ [][NonNegativeNext]_vars

\* C18 as claimed, checked under NonNegativeSpec: in the loop, if every
\* DepositMoney and WithdrawMoney has amount >= 0, then state.balance >= 0
\* in every reachable state.
C18_NoOverdraft ==
    FGe(state.balance, Zero)

\* C18 as amended: the same, for amounts that are finite as well as >= 0.
C18_NoOverdraftFiniteAmounts ==
    FiniteAmounts => FGe(state.balance, Zero)

\* The whole balance was withdrawn, leaving exactly zero.
C18_Witness ==
    /\ log = <<CustomerDepositedMoney(Fin(2), Fin(2)),
               CustomerWithdrewCash(Fin(2), Zero)>>
    /\ state.balance = Zero

-----------------------------------------------------------------------------
(* Folding a decision made against a state that has since moved on *)

StaleAmounts == {Fin(-1), Fin(1), Fin(2)}

StaleCommands ==
    {DepositMoney(a) : a \in StaleAmounts} \cup {WithdrawMoney(a) : a \in StaleAmounts}

\* The event of the most recent handle call is folded.
ApplyDecided ==
    /\ IsHandle
    /\ Len(Emitted(call.result)) = 1
    /\ Apply(call.result.events[1])

\* The event of the remembered handle call is folded, whatever was handled
\* or folded since that call; nothing compares the state it was decided
\* against with the state it is folded into.
ApplyStale ==
    /\ earlier.op = "handle"
    /\ Len(Emitted(earlier.result)) = 1
    /\ state' = apply(state, earlier.result.events[1])
    /\ call' = [op |-> "apply", pre |-> state, event |-> earlier.result.events[1]]
    /\ earlier' = [op |-> "folded", pre |-> earlier.pre, command |-> earlier.command,
                   result |-> earlier.result, other |-> call]
    /\ UNCHANGED <<log, replay>>

StaleNext ==
    \/ \E command \in StaleCommands : Handle(command)
    \/ Remember
    \/ ApplyDecided
    \/ ApplyStale

StaleSpec == Init /\ [][StaleNext]_vars

\* Two decisions were made against the same state, the event of one was
\* folded and then the event of the remembered one.
BothFolded ==
    /\ IsApply
    /\ earlier.op = "folded"
    /\ earlier.other.op = "apply"
    /\ earlier.other.pre = earlier.pre
    /\ call.pre = apply(earlier.pre, earlier.other.event)

\* C19: when two commands are handled against the same state and both
\* events are folded, the balance is the balance field of the event folded
\* last: the state is what folding that event alone would have given, and
\* the effect of the other command is lost.
C19_StaleDecisionOverwrites ==
    BothFolded =>
        /\ state.balance = call.event.balance
        /\ state = apply(earlier.pre, call.event)

\* Two withdrawals of 1 were decided against a balance of 1, both were
\* granted and both were folded: the balance is 0.
C19_Witness ==
    /\ BothFolded
    /\ earlier.pre.balance = Fin(1)
    /\ earlier.command = WithdrawMoney(Fin(1))
    /\ earlier.other.event = CustomerWithdrewCash(Fin(1), Zero)
    /\ call.event = CustomerWithdrewCash(Fin(1), Zero)
    /\ state.balance = Zero

=============================================================================
